---- MODULE Spec2Model ----
(***************************************************************************)
(* Bond price calculator: the pricing function of bond_pricer.py (CLI,     *)
(* maturity given as a 'YYYY-MM-DD' string) and of bond_dashboard.py       *)
(* (Streamlit, maturity given as a date), the CLI prompt loop and the      *)
(* dashboard's price/YTM curve.                                            *)
(*                                                                         *)
(* Python floats are modelled by exact rationals <<num, den>> (den > 0,    *)
(* lowest terms); dates by their proleptic Gregorian ordinal, as           *)
(* datetime.date.toordinal() numbers them; date.today() by the variable    *)
(* today, which the Tick action advances.                                  *)
(***************************************************************************)
EXTENDS Integers, Sequences, FiniteSets, TLC

VARIABLES
    today,              \* what date.today() returns now (an ordinal)
    \* --- direct calls of calculate_bond_price ---
    impl,               \* "pricer" (bond_pricer.py) or "dashboard" (bond_dashboard.py)
    face_value, coupon_rate, maturity, coupon_frequency_per_year,
    prev, last,         \* the two most recent calls: [called, ytm, today, result]
    \* --- bond_pricer.main ---
    pc, cli, out, displayed, roundBad, answer,
    \* --- bond_dashboard.main ---
    dpc, widgets, bond_price, label, ytm_range, prices_for_ytm_range,
    df_price_sensitivity, runStart

vars == <<today, impl, face_value, coupon_rate, maturity, coupon_frequency_per_year,
          prev, last, pc, cli, out, displayed, roundBad, answer,
          dpc, widgets, bond_price, label, ytm_range, prices_for_ytm_range,
          df_price_sensitivity, runStart>>

callVars == <<impl, face_value, coupon_rate, maturity, coupon_frequency_per_year,
              prev, last>>
cliVars  == <<pc, cli, out, displayed, roundBad, answer>>
dashVars == <<dpc, widgets, bond_price, label, ytm_range, prices_for_ytm_range,
              df_price_sensitivity, runStart>>

---------------------------------------------------------------------------
(* Bounds of the model.                                                    *)

\* How many days the clock may advance past the first day.
MaxDays == 1

---------------------------------------------------------------------------
(* Exact rational arithmetic standing for Python's float arithmetic.       *)

Abs(x) == IF x < 0 THEN -x ELSE x

RECURSIVE GCD(_, _)
GCD(a, b) == IF b = 0 THEN a ELSE GCD(b, a % b)

\* n/d in lowest terms with a positive denominator (d # 0).
Norm(n, d) ==
    LET g == GCD(Abs(n), Abs(d))
        s == IF d < 0 THEN -1 ELSE 1
    IN  <<(s * n) \div g, (s * d) \div g>>

R(n) == <<n, 1>>
Zero == <<0, 1>>
One == <<1, 1>>

RNeg(a) == <<-a[1], a[2]>>

RAdd(a, b) ==
    LET g == GCD(a[2], b[2])
    IN  Norm(a[1] * (b[2] \div g) + b[1] * (a[2] \div g), (a[2] \div g) * b[2])

RSub(a, b) == RAdd(a, RNeg(b))

\* Cross-cancelled so that no intermediate product exceeds the result.
RMul(a, b) ==
    LET g1 == GCD(Abs(a[1]), b[2])
        g2 == GCD(Abs(b[1]), a[2])
    IN  Norm((a[1] \div g1) * (b[1] \div g2), (a[2] \div g2) * (b[2] \div g1))

\* b # 0 (Python raises ZeroDivisionError otherwise; callers test first).
RDiv(a, b) == RMul(a, Norm(b[2], b[1]))

RECURSIVE RPowNat(_, _)
RPowNat(a, n) == IF n = 0 THEN One ELSE RMul(a, RPowNat(a, n - 1))

\* a ** n for an integer n of either sign (a # 0 when n < 0).
RPow(a, n) == IF n >= 0 THEN RPowNat(a, n) ELSE RDiv(One, RPowNat(a, -n))

\* math.ceil / np.ceil of a rational.
Ceil(a) == -((-a[1]) \div a[2])

\* a < b for non-negative-denominator rationals, by comparing integer parts and
\* then the reciprocals of the fractional parts (no cross product to overflow).
RECURSIVE FracLess(_, _, _, _)
FracLess(a, b, c, d) ==
    \* a/b < c/d with 0 <= a, 0 < b, 0 <= c, 0 < d
    LET q1 == a \div b
        q2 == c \div d
        r1 == a % b
        r2 == c % d
    IN  IF q1 # q2 THEN q1 < q2
        ELSE IF r2 = 0 THEN FALSE
        ELSE IF r1 = 0 THEN TRUE
        ELSE FracLess(d, r2, b, r1)

RLess(a, b) ==
    IF a[1] < 0 /\ b[1] >= 0 THEN TRUE
    ELSE IF a[1] >= 0 /\ b[1] < 0 THEN FALSE
    ELSE IF a[1] >= 0 THEN FracLess(a[1], a[2], b[1], b[2])
    ELSE FracLess(-b[1], b[2], -a[1], a[2])

RLeq(a, b) == ~RLess(b, a)

---------------------------------------------------------------------------
(* Calendar: datetime.date ordinals and strptime(..., '%Y-%m-%d').         *)

IsLeap(y) == y % 4 = 0 /\ (y % 100 # 0 \/ y % 400 = 0)

DaysInMonth(y, m) ==
    IF m = 2 THEN (IF IsLeap(y) THEN 29 ELSE 28)
    ELSE IF m \in {4, 6, 9, 11} THEN 30 ELSE 31

RECURSIVE DaysBeforeMonth(_, _)
DaysBeforeMonth(y, m) ==
    IF m = 1 THEN 0 ELSE DaysBeforeMonth(y, m - 1) + DaysInMonth(y, m - 1)

DaysBeforeYear(y) ==
    (y - 1) * 365 + (y - 1) \div 4 - (y - 1) \div 100 + (y - 1) \div 400

\* date(y, m, d).toordinal()
Ordinal(y, m, d) == DaysBeforeYear(y) + DaysBeforeMonth(y, m) + d

\* A date string is [text |-> TRUE] (not of the form digits-digits-digits) or
\* [text |-> FALSE, y, m, d]: the three numeric fields of 'Y-M-D'.
DateStr(y, m, d) == [text |-> FALSE, y |-> y, m |-> m, d |-> d]
NotADate == [text |-> TRUE, y |-> 0, m |-> 0, d |-> 0]

\* Whether datetime.strptime(s, '%Y-%m-%d') raises ValueError.
StrptimeFails(s) ==
    \/ s.text
    \/ s.y < 1 \/ s.y > 9999
    \/ s.m < 1 \/ s.m > 12
    \/ s.d < 1 \/ s.d > DaysInMonth(s.y, s.m)

\* datetime.strptime(s, '%Y-%m-%d').date(), as an ordinal.
Strptime(s) == Ordinal(s.y, s.m, s.d)

---------------------------------------------------------------------------
(* calculate_bond_price: the steps shared, line for line, by               *)
(* bond_pricer.py (lines 51-103) and bond_dashboard.py (lines 44-85).      *)

\* What the function hands back: a price, or None after printing one of the
\* three error messages, or an exception raised by the arithmetic.
Price(p) == [kind |-> "Price", price |-> p]
None(message) == [kind |-> message, price |-> Zero]
Raised(exception) == [kind |-> exception, price |-> Zero]
NotCalled == [called |-> FALSE, ytm |-> Zero, today |-> 0, result |-> None("NotCalled")]

IsFailure(r) == r.kind \in {"InvalidDateFormat", "PastMaturity", "InvalidFrequency"}

\* if maturity_date < today
MaturityInPast(maturity_date, clock) == maturity_date < clock

FrequencyLessThanZero(f) == f < 0
\* if coupon_frequency_per_year <= 0
FrequencyInvalid(f) == f <= 0

\* (maturity_date - today).days / 365.25
YearsToMaturity(maturity_date, clock) == Norm((maturity_date - clock) * 4, 1461)

NumPeriodsFloorPlusOne(years_to_maturity, f) ==
    (years_to_maturity[1] * f) \div years_to_maturity[2] + 1
\* math.ceil(years_to_maturity * coupon_frequency_per_year)
NumPeriods(years_to_maturity, f) == Ceil(RMul(years_to_maturity, R(f)))

\* (face_value * coupon_rate) / coupon_frequency_per_year
PeriodicCouponPayment(fv, cr, f) == RDiv(RMul(fv, cr), R(f))

PeriodicYtmUndivided(ytm, f) == ytm
\* ytm / coupon_frequency_per_year
PeriodicYtm(ytm, f) == RDiv(ytm, R(f))

PvCouponsOnePeriod(periodic_coupon_payment, periodic_ytm, num_periods) ==
    IF periodic_ytm = Zero
    THEN periodic_coupon_payment
    ELSE RMul(periodic_coupon_payment,
              RDiv(RSub(One, RPow(RAdd(One, periodic_ytm), -num_periods)),
                   periodic_ytm))
\* pv_coupons: the undiscounted sum when periodic_ytm == 0, else the annuity
\* formula C * ((1 - (1 + r)**(-n)) / r).
PvCoupons(periodic_coupon_payment, periodic_ytm, num_periods) ==
    IF periodic_ytm = Zero
    THEN RMul(periodic_coupon_payment, R(num_periods))
    ELSE RMul(periodic_coupon_payment,
              RDiv(RSub(One, RPow(RAdd(One, periodic_ytm), -num_periods)),
                   periodic_ytm))

PvFaceValueUndiscounted(fv, periodic_ytm, num_periods) == fv
\* pv_face_value = face_value / ((1 + periodic_ytm)**num_periods)
PvFaceValue(fv, periodic_ytm, num_periods) ==
    RDiv(fv, RPow(RAdd(One, periodic_ytm), num_periods))

\* bond_pricer.py lines 51-103: everything after the date string is parsed.
\* With 1 + periodic_ytm = 0 Python's 0.0 ** -n raises ZeroDivisionError.
PricerPriceOn(fv, cr, maturity_date, ytm, f, clock) ==
    IF MaturityInPast(maturity_date, clock) THEN None("PastMaturity")
    ELSE IF FrequencyInvalid(f) THEN None("InvalidFrequency")
    ELSE LET years_to_maturity == YearsToMaturity(maturity_date, clock)
             num_periods == NumPeriods(years_to_maturity, f)
         IN  IF num_periods <= 0 THEN Price(fv)
             ELSE LET periodic_coupon_payment == PeriodicCouponPayment(fv, cr, f)
                      periodic_ytm == PeriodicYtm(ytm, f)
                  IN  IF RAdd(One, periodic_ytm) = Zero
                      THEN Raised("ZeroDivisionError")
                      ELSE Price(RAdd(PvCoupons(periodic_coupon_payment,
                                                periodic_ytm, num_periods),
                                      PvFaceValue(fv, periodic_ytm, num_periods)))

PricerFrequencyFirst(fv, cr, maturity_date_str, ytm, f, clock) ==
    IF StrptimeFails(maturity_date_str) THEN None("InvalidDateFormat")
    ELSE IF FrequencyInvalid(f) THEN None("InvalidFrequency")
    ELSE PricerPriceOn(fv, cr, Strptime(maturity_date_str), ytm, f, clock)
\* bond_pricer.calculate_bond_price(face_value, coupon_rate, maturity_date_str,
\* ytm, coupon_frequency_per_year), called while date.today() is clock.
PricerCalculateBondPrice(fv, cr, maturity_date_str, ytm, f, clock) ==
    IF StrptimeFails(maturity_date_str) THEN None("InvalidDateFormat")
    ELSE PricerPriceOn(fv, cr, Strptime(maturity_date_str), ytm, f, clock)

\* bond_dashboard.calculate_bond_price(face_value, coupon_rate, maturity_date,
\* ytm, coupon_frequency_per_year), called while date.today() is clock.
\* num_periods is a numpy float here, and with 1 + periodic_ytm = 0 numpy's
\* power yields inf instead of raising: the price is not finite.
DashboardCalculateBondPrice(fv, cr, maturity_date, ytm, f, clock) ==
    IF MaturityInPast(maturity_date, clock) THEN None("PastMaturity")
    ELSE IF FrequencyInvalid(f) THEN None("InvalidFrequency")
    ELSE LET years_to_maturity == YearsToMaturity(maturity_date, clock)
             num_periods == NumPeriods(years_to_maturity, f)
         IN  IF num_periods <= 0 THEN Price(fv)
             ELSE LET periodic_coupon_payment == PeriodicCouponPayment(fv, cr, f)
                      periodic_ytm == PeriodicYtm(ytm, f)
                  IN  IF RAdd(One, periodic_ytm) = Zero
                      THEN Raised("NonFinite")
                      ELSE Price(RAdd(PvCoupons(periodic_coupon_payment,
                                                periodic_ytm, num_periods),
                                      PvFaceValue(fv, periodic_ytm, num_periods)))

\* Premium / discount / par, as bond_dashboard.main labels a price.
Classify(price, fv) ==
    IF RLess(fv, price) THEN "Premium Bond"
    ELSE IF RLess(price, fv) THEN "Discount Bond"
    ELSE "Par Bond"

---------------------------------------------------------------------------
(* The clock.                                                              *)

\* The first day of every behaviour.
FirstDay == Ordinal(2026, 11, 6)

\* Midnight passes: date.today() returns the next day from now on.
Tick ==
    /\ today < FirstDay + MaxDays
    /\ today' = today + 1

---------------------------------------------------------------------------
(* Direct calls of the pricing function: the arguments other than ytm are  *)
(* fixed by Init, each Call applies the function at the current clock.     *)

FaceValues == {R(-100), Zero, R(100)}
CouponRates == {R(-2), Zero, <<1, 20>>}
\* Every sampled YTM keeps 1 + ytm / f > 0 for f >= 1.
Ytms == {<<-1, 20>>, Zero, <<1, 25>>, <<1, 20>>, <<3, 50>>}
Frequencies == {-1, 0, 1, 2}
WellFormedDateStrs ==
    {DateStr(2026, 11, 5), DateStr(2026, 11, 6), DateStr(2026, 11, 7),
     DateStr(2027, 11, 6), DateStr(2027, 11, 7)}
MaturityDateStrs == WellFormedDateStrs \cup {NotADate, DateStr(2026, 2, 30)}
MaturityDates == {Strptime(s) : s \in WellFormedDateStrs}

CalculateBondPrice(ytm, clock) ==
    IF impl = "pricer"
    THEN PricerCalculateBondPrice(face_value, coupon_rate, maturity, ytm,
                                  coupon_frequency_per_year, clock)
    ELSE DashboardCalculateBondPrice(face_value, coupon_rate, maturity, ytm,
                                     coupon_frequency_per_year, clock)

Call(ytm) ==
    /\ prev' = last
    /\ last' = [called |-> TRUE, ytm |-> ytm, today |-> today,
                result |-> CalculateBondPrice(ytm, today)]
    /\ UNCHANGED <<today, impl, face_value, coupon_rate, maturity,
                   coupon_frequency_per_year>>

CliIdle ==
    /\ pc = "idle" /\ cli = <<>> /\ out = <<>> /\ displayed = None("NotCalled")
    /\ roundBad = FALSE /\ answer = <<>>
NoWidgets == [face_value |-> Zero, coupon_rate_percent |-> Zero,
              maturity_date |-> 0, ytm_percent |-> Zero, coupon_frequency |-> 0]

DashIdle ==
    /\ dpc = "idle" /\ widgets = NoWidgets /\ bond_price = None("NotCalled")
    /\ label = "" /\ ytm_range = <<>> /\ prices_for_ytm_range = <<>>
    /\ df_price_sensitivity = <<>> /\ runStart = 0

InitCalls ==
    /\ today = FirstDay
    /\ impl \in {"pricer", "dashboard"}
    /\ face_value \in FaceValues
    /\ coupon_rate \in CouponRates
    /\ maturity \in (IF impl = "pricer" THEN MaturityDateStrs ELSE MaturityDates)
    /\ coupon_frequency_per_year \in Frequencies
    /\ prev = NotCalled
    /\ last = NotCalled
    /\ CliIdle
    /\ DashIdle

CallsTick == Tick /\ UNCHANGED callVars
CallsCall == \E ytm \in Ytms : Call(ytm)

NextCalls ==
    \/ CallsTick /\ UNCHANGED <<cliVars, dashVars>>
    \/ CallsCall /\ UNCHANGED <<cliVars, dashVars>>

SpecCalls == InitCalls /\ [][NextCalls]_vars

---------------------------------------------------------------------------
(* Properties of the pricing function (checked under SpecCalls).           *)

\* The date argument is one the function gets a maturity date from.
DateOk == impl = "dashboard" \/ ~StrptimeFails(maturity)
\* The maturity date as an ordinal (meaningful when DateOk).
MaturityDate == IF impl = "pricer" THEN Strptime(maturity) ELSE maturity
\* (maturity_date - today).days at the time of call c.
DaysToMaturity(c) == MaturityDate - c.today
\* The call passed the function's own validation.
PassedValidation(c) ==
    /\ c.called /\ DateOk
    /\ DaysToMaturity(c) >= 0
    /\ coupon_frequency_per_year >= 1
\* ceil(daysToMaturity / 365.25 * couponFrequency), written out.
ClaimedNumPeriods(c) ==
    Ceil(Norm(DaysToMaturity(c) * 4 * coupon_frequency_per_year, 1461))

\* C1: a call whose maturity date is strictly earlier than today returns the
\* past-maturity failure, whatever the other arguments are.
C1_PastMaturityRejected ==
    (last.called /\ DateOk /\ DaysToMaturity(last) < 0)
        => last.result.kind = "PastMaturity"

\* C1 witness: a past maturity together with an invalid frequency was rejected
\* as past maturity.
C1_Witness ==
    /\ last.called /\ DateOk /\ DaysToMaturity(last) < 0
    /\ coupon_frequency_per_year <= 0
    /\ last.result.kind = "PastMaturity"

\* C2 as stated: a call with coupon frequency <= 0 returns the
\* invalid-frequency failure for every value of the other inputs.
C2_AlwaysInvalidFrequency ==
    (last.called /\ coupon_frequency_per_year <= 0)
        => last.result.kind = "InvalidFrequency"

\* C2 amended: a call with coupon frequency <= 0 never returns a price; it
\* returns the invalid-frequency failure when the maturity date is well formed
\* and not before today, and the date failure that is tested first otherwise.
C2_InvalidFrequencyRejected ==
    (last.called /\ coupon_frequency_per_year <= 0)
        => /\ IsFailure(last.result)
           /\ (DateOk /\ DaysToMaturity(last) >= 0)
                  => last.result.kind = "InvalidFrequency"
           /\ (DateOk /\ DaysToMaturity(last) < 0)
                  => last.result.kind = "PastMaturity"
           /\ ~DateOk => last.result.kind = "InvalidDateFormat"

\* C2 witness: frequency 0 with a future maturity was rejected as an invalid
\* frequency.
C2_Witness ==
    /\ last.called /\ coupon_frequency_per_year = 0
    /\ DateOk /\ DaysToMaturity(last) > 0
    /\ last.result.kind = "InvalidFrequency"

\* C3 as stated: a call with face value <= 0 returns a validation failure,
\* never a price.
C3_NonPositiveFaceRejected ==
    (last.called /\ face_value[1] <= 0) => IsFailure(last.result)

\* C4: a call that passes validation with ceil(days / 365.25 * f) <= 0 returns
\* exactly the face value.
C4_NearMaturityIsFaceValue ==
    (PassedValidation(last) /\ ClaimedNumPeriods(last) <= 0)
        => last.result = Price(face_value)

\* C4 witness: maturity equal to today, coupon and YTM different and nonzero,
\* and the face value came back.
C4_Witness ==
    /\ PassedValidation(last) /\ DaysToMaturity(last) = 0
    /\ coupon_rate # Zero /\ last.ytm # Zero /\ last.ytm # coupon_rate
    /\ face_value # Zero
    /\ last.result = Price(face_value)

TwoYieldsCompared(lo, hi) ==
    /\ lo.called /\ hi.called /\ lo.today = hi.today
    /\ PassedValidation(lo) /\ PassedValidation(hi)
    /\ face_value[1] > 0
    /\ RLess(Zero, RDiv(lo.ytm, R(coupon_frequency_per_year)))
    /\ RLess(lo.ytm, hi.ytm)

StrictlyCheaper(hi, lo) ==
    /\ hi.result.kind = "Price" /\ lo.result.kind = "Price"
    /\ RLess(hi.result.price, lo.result.price)

\* C6 as stated: for all valid inputs and y1 < y2 with periodic YTMs > 0, the
\* price at y2 is strictly less than the price at y1.
C6_StrictlyDecreasingAlways ==
    /\ TwoYieldsCompared(prev, last) => StrictlyCheaper(last, prev)
    /\ TwoYieldsCompared(last, prev) => StrictlyCheaper(prev, last)

\* C6 amended: the same, for inputs with at least one coupon period left
\* (maturity strictly after today) and a coupon rate >= 0.
C6_StrictlyDecreasing ==
    (coupon_rate[1] >= 0) =>
        /\ (TwoYieldsCompared(prev, last) /\ DaysToMaturity(last) > 0)
               => StrictlyCheaper(last, prev)
        /\ (TwoYieldsCompared(last, prev) /\ DaysToMaturity(last) > 0)
               => StrictlyCheaper(prev, last)

\* C6 witness: two prices of one bond, several periods from maturity, the one at
\* the higher YTM strictly lower.
C6_Witness ==
    /\ TwoYieldsCompared(prev, last) /\ ClaimedNumPeriods(last) >= 2
    /\ coupon_rate[1] > 0
    /\ StrictlyCheaper(last, prev)

\* C7: a valid call with ytm equal to the coupon rate returns the face value,
\* which is labelled a par bond (neither premium nor discount).
C7_ParBond ==
    (PassedValidation(last) /\ last.ytm = coupon_rate)
        => /\ last.result = Price(face_value)
           /\ Classify(last.result.price, face_value) = "Par Bond"

\* C7 witness: a 5% annual bond exactly one year from maturity priced at a 5%
\* yield, through the discounting formula.
C7_Witness ==
    /\ PassedValidation(last) /\ last.ytm = coupon_rate /\ coupon_rate # Zero
    /\ face_value[1] > 0
    /\ coupon_frequency_per_year = 1
    /\ DaysToMaturity(last) = 365
    /\ last.result = Price(face_value)

\* C9 as stated: two calls with identical arguments return the identical result,
\* no matter when each is made.
C9_Deterministic ==
    (prev.called /\ last.called /\ prev.ytm = last.ytm)
        => prev.result = last.result

---------------------------------------------------------------------------
(* bond_pricer.main: the prompt loop.  One action per input() call; each   *)
(* runs the code from that prompt to the next one.                         *)

\* A line typed at a numeric prompt: an integer literal ("5"), a decimal
\* literal ("2.5") or text that is no number.
IntTok(n) == [kind |-> "int", val |-> R(n)]
DecTok(v) == [kind |-> "dec", val |-> v]
BadTok == [kind |-> "bad", val |-> Zero]

\* float(input(...)) / int(input(...)) raise ValueError on these.
FloatFails(tok) == tok.kind = "bad"
IntFails(tok) == tok.kind # "int"
ParseFloat(tok) == tok.val
ParseInt(tok) == tok.val[1]

\* str.lower(), on a line given as its characters.
LowerChar(c) ==
    CASE c = "Y" -> "y" [] c = "E" -> "e" [] c = "S" -> "s"
      [] c = "N" -> "n" [] c = "O" -> "o" [] OTHER -> c
Lower(line) == [i \in DOMAIN line |-> LowerChar(line[i])]

OnlyValueError(exception) == exception = "ValueError"
\* except ValueError: ... except Exception as e: ...  (both fall through to the
\* "calculate another?" prompt)
Caught(exception) == exception \in {"ValueError", "ZeroDivisionError"}

\* The message the handler prints.
HandlerMessage(exception) ==
    IF exception = "ValueError" THEN "Invalid input detected"
    ELSE "An unexpected error occurred"

\* not (0 <= x <= 1)
OutsideUnit(x) == ~(RLeq(Zero, x) /\ RLeq(x, One))

FaceValueToks == {BadTok, IntTok(-100), IntTok(0), IntTok(100)}
CouponRateToks == {BadTok, IntTok(0), IntTok(5), IntTok(150), DecTok(<<5, 2>>)}
YtmToks == {BadTok, IntTok(0), IntTok(5), IntTok(-100)}
CouponFrequencyToks == {BadTok, DecTok(<<5, 2>>), IntTok(0), IntTok(1), IntTok(2)}
CliDateStrs ==
    {NotADate, DateStr(2026, 2, 30), DateStr(2026, 11, 5), DateStr(2026, 11, 6),
     DateStr(2026, 11, 7), DateStr(2027, 11, 7)}
Answers ==
    {<<"y", "e", "s">>, <<"Y", "E", "S">>, <<"Y", "e", "s">>, <<"n", "o">>,
     <<"y">>, <<>>}

NoLocals == [face_value |-> Zero, coupon_rate |-> Zero,
             maturity_date_str |-> NotADate, ytm |-> Zero]

\* An exception raised inside the try block of the loop body.
RaiseInLoop(exception) ==
    IF Caught(exception)
    THEN /\ out' = Append(out, HandlerMessage(exception))
         /\ pc' = "another"
    ELSE /\ out' = out
         /\ pc' = "crashed"

\* Lines 122-125.  The locals of the previous round are dead here (each is
\* assigned before it is read), so the round starts from NoLocals; out,
\* displayed and roundBad describe the round that this prompt opens.
EnterFaceValue(tok) ==
    /\ pc = "face_value"
    /\ displayed' = None("NotCalled")
    /\ IF FloatFails(tok)
       THEN /\ roundBad' = TRUE
            /\ cli' = NoLocals
            /\ IF Caught("ValueError")
               THEN out' = <<HandlerMessage("ValueError")>> /\ pc' = "another"
               ELSE out' = <<>> /\ pc' = "crashed"
       ELSE IF ParseFloat(tok)[1] <= 0
       THEN /\ roundBad' = TRUE
            /\ cli' = NoLocals
            /\ out' = <<"Error: Face Value must be positive">>
            /\ pc' = "face_value"
       ELSE /\ roundBad' = FALSE
            /\ cli' = [NoLocals EXCEPT !.face_value = ParseFloat(tok)]
            /\ out' = <<>>
            /\ pc' = "coupon_rate"
    /\ UNCHANGED <<today, answer>>

\* Lines 129-133.
EnterCouponRate(tok) ==
    /\ pc = "coupon_rate"
    /\ IF FloatFails(tok)
       THEN /\ roundBad' = TRUE
            /\ cli' = cli
            /\ RaiseInLoop("ValueError")
       ELSE LET rate == RDiv(ParseFloat(tok), R(100))
            IN  /\ roundBad' = roundBad
                /\ cli' = [cli EXCEPT !.coupon_rate = rate]
                /\ out' = IF OutsideUnit(rate)
                          THEN Append(out, "Warning: Coupon Rate")
                          ELSE out
                /\ pc' = "maturity_date_str"
    /\ UNCHANGED <<today, answer, displayed>>

\* Line 136: the string is stored unexamined.
EnterMaturityDate(s) ==
    /\ pc = "maturity_date_str"
    /\ cli' = [cli EXCEPT !.maturity_date_str = s]
    /\ roundBad' = (roundBad \/ StrptimeFails(s))
    /\ pc' = "ytm"
    /\ UNCHANGED <<today, answer, displayed, out>>

\* Lines 140-144.
EnterYtm(tok) ==
    /\ pc = "ytm"
    /\ IF FloatFails(tok)
       THEN /\ roundBad' = TRUE
            /\ cli' = cli
            /\ RaiseInLoop("ValueError")
       ELSE LET y == RDiv(ParseFloat(tok), R(100))
            IN  /\ roundBad' = roundBad
                /\ cli' = [cli EXCEPT !.ytm = y]
                /\ out' = IF OutsideUnit(y)
                          THEN Append(out, "Warning: Yield to Maturity")
                          ELSE out
                /\ pc' = "coupon_frequency"
    /\ UNCHANGED <<today, answer, displayed>>

\* Lines 147-164: the frequency prompt, the call and the display.
EnterCouponFrequency(tok) ==
    /\ pc = "coupon_frequency"
    /\ cli' = cli
    /\ IF IntFails(tok)
       THEN /\ roundBad' = TRUE
            /\ displayed' = displayed
            /\ RaiseInLoop("ValueError")
       ELSE IF ParseInt(tok) <= 0
       THEN /\ roundBad' = TRUE
            /\ displayed' = displayed
            /\ out' = Append(out, "Error: Coupon frequency must be a positive integer")
            /\ pc' = "face_value"
       ELSE LET result == PricerCalculateBondPrice(cli.face_value, cli.coupon_rate,
                              cli.maturity_date_str, cli.ytm, ParseInt(tok), today)
            IN  /\ roundBad' = roundBad
                /\ IF result.kind = "Price"
                   THEN /\ displayed' = result
                        /\ out' = Append(out, "Calculated Bond Price")
                        /\ pc' = "another"
                   ELSE IF IsFailure(result)
                   THEN /\ displayed' = displayed
                        /\ out' = Append(out, result.kind)
                        /\ pc' = "another"
                   ELSE /\ displayed' = displayed
                        /\ RaiseInLoop(result.kind)
    /\ UNCHANGED <<today, answer>>

\* Lines 167-172.
AnswerAnother(line) ==
    /\ pc = "another"
    /\ answer' = line
    /\ pc' = IF Lower(line) # <<"y", "e", "s">> THEN "done" ELSE "face_value"
    /\ UNCHANGED <<today, cli, out, displayed, roundBad>>

CliTick == Tick /\ pc # "done" /\ UNCHANGED cliVars

CallsIdle ==
    /\ impl = "pricer" /\ face_value = Zero /\ coupon_rate = Zero
    /\ maturity = NotADate /\ coupon_frequency_per_year = 0
    /\ prev = NotCalled /\ last = NotCalled

InitCli ==
    /\ today = FirstDay
    /\ pc = "face_value"
    /\ cli = NoLocals
    /\ out = <<>>
    /\ displayed = None("NotCalled")
    /\ roundBad = FALSE
    /\ answer = <<>>
    /\ CallsIdle
    /\ DashIdle

NextCli ==
    \/ CliTick /\ UNCHANGED <<callVars, dashVars>>
    \/ (\E tok \in FaceValueToks : EnterFaceValue(tok)) /\ UNCHANGED <<callVars, dashVars>>
    \/ (\E tok \in CouponRateToks : EnterCouponRate(tok)) /\ UNCHANGED <<callVars, dashVars>>
    \/ (\E s \in CliDateStrs : EnterMaturityDate(s)) /\ UNCHANGED <<callVars, dashVars>>
    \/ (\E tok \in YtmToks : EnterYtm(tok)) /\ UNCHANGED <<callVars, dashVars>>
    \/ (\E tok \in CouponFrequencyToks : EnterCouponFrequency(tok))
           /\ UNCHANGED <<callVars, dashVars>>
    \/ (\E line \in Answers : AnswerAnother(line)) /\ UNCHANGED <<callVars, dashVars>>

SpecCli == InitCli /\ [][NextCli]_vars

\* C10: in the prompt loop a round with malformed numeric or date input, or a
\* non-positive face value or frequency, never displays a price and never ends
\* the loop abnormally; the loop ends only at the "calculate another?" prompt
\* and only on an answer that is not "yes" in any letter case, and every such
\* "yes" starts a new round.
C10_LoopSurvivesBadInput ==
    /\ [](roundBad => displayed.kind # "Price")
    /\ [](pc # "crashed")
    /\ [][pc' = "done" => pc \in {"another", "done"}]_vars
    /\ [][(pc = "another" /\ pc' # "another") =>
             IF answer' \in {<<"y", "e", "s">>, <<"Y", "E", "S">>, <<"Y", "e", "s">>}
             THEN pc' = "face_value"
             ELSE pc' = "done"]_vars

\* C10 witness: in a round after the first, a well-formed but impossible date
\* (February 30) reached the function, was reported, and the loop is back at the
\* "calculate another?" prompt with no price displayed.
C10_Witness ==
    /\ pc = "another" /\ roundBad
    /\ answer = <<"Y", "E", "S">>
    /\ cli.maturity_date_str = DateStr(2026, 2, 30)
    /\ out # <<>> /\ out[Len(out)] = "InvalidDateFormat"
    /\ displayed.kind # "Price"

---------------------------------------------------------------------------
(* bond_dashboard.main: one run of the script per change of a widget.  The *)
(* run prices the bond, labels it, and prices it again at each of the 50   *)
(* sampled YTMs; date.today() is read anew by every call.                  *)

\* The number of samples np.linspace is asked for.
NumSamples == 50

\* The options of the frequency select box.
CouponFrequencyOptions == {1, 2, 4, 12}

\* Sampled widget values (percentages as the widgets hold them); the sampled
\* frequencies are the smallest and the largest option.
WidgetFrequencies == {f \in CouponFrequencyOptions : f \in {1, 12}}
WidgetFaceValues == {R(1000)}
WidgetCouponPercents == {R(5)}
WidgetYtmPercents == {R(4), R(7)}
\* Days from today to the selected maturity (the date widget refuses earlier
\* dates: min_value = date.today()).
WidgetMaturityOffsets == {0, 1}

NaN == [kind |-> "NaN", price |-> Zero]

RMax(a, b) == IF RLess(a, b) THEN b ELSE a

\* max(0.0, ytm_percent - 5)
LinspaceStart(ytm_percent) == RMax(Zero, RSub(ytm_percent, R(5)))
\* ytm_percent + 5
LinspaceStop(ytm_percent) == RAdd(ytm_percent, R(5))

\* np.linspace(start, stop, num)[k + 1]: start + k * (stop - start) / (num - 1)
Linspace(start, stop, num) ==
    [k \in 1..num |->
        RAdd(start, RDiv(RMul(R(k - 1), RSub(stop, start)), R(num - 1)))]

\* np.round(x, 1): to the nearest tenth, a tie to the even tenth.
Round1(x) ==
    LET v == RMul(x, R(10))
        fl == v[1] \div v[2]
        twice == 2 * (v[1] - fl * v[2])      \* 2 * fractional part * v[2]
        tenths == IF twice < v[2] THEN fl
                  ELSE IF twice > v[2] THEN fl + 1
                  ELSE IF fl % 2 = 0 THEN fl ELSE fl + 1
    IN  Norm(tenths, 10)

\* np.round(np.linspace(max(0.0, ytm_percent - 5), ytm_percent + 5, 50), 1)
YtmRange(ytm_percent) ==
    LET raw == Linspace(LinspaceStart(ytm_percent), LinspaceStop(ytm_percent),
                        NumSamples)
    IN  [k \in 1..NumSamples |-> Round1(raw[k])]

\* calculate_bond_price(face_value, coupon_rate, maturity_date, ytm, frequency)
\* with the widgets' bond and the given annual ytm (a fraction).
WidgetPrice(w, ytm, clock) ==
    DashboardCalculateBondPrice(w.face_value,
                                RDiv(w.coupon_rate_percent, R(100)),
                                w.maturity_date, ytm, w.coupon_frequency, clock)

CurvePointUnscaled(w, y, clock) ==
    LET price == WidgetPrice(w, y, clock)
    IN  IF IsFailure(price) THEN NaN ELSE price
\* Lines 187-191: the price at sample y (a percentage), or np.nan.
CurvePoint(w, y, clock) ==
    LET price == WidgetPrice(w, RDiv(y, R(100)), clock)
    IN  IF IsFailure(price) THEN NaN ELSE price

\* pd.DataFrame({'YTM (%)': ..., 'Bond Price ($)': ...}).dropna()
RECURSIVE Dropna(_, _)
Dropna(ytms, prices) ==
    IF ytms = <<>> THEN <<>>
    ELSE LET rest == Dropna(Tail(ytms), Tail(prices))
         IN  IF Head(prices) = NaN THEN rest
             ELSE <<[ytm |-> Head(ytms), price |-> Head(prices)]>> \o rest

\* Lines 104-182: read the widgets, price and label the bond, sample the YTMs.
DashRun(w) ==
    /\ dpc = "idle"
    /\ widgets' = w
    /\ runStart' = today
    /\ LET price == WidgetPrice(w, RDiv(w.ytm_percent, R(100)), today)
       IN  /\ bond_price' = price
           /\ prices_for_ytm_range' = <<>>
           /\ df_price_sensitivity' = <<>>
           /\ IF IsFailure(price)
              THEN label' = "" /\ ytm_range' = <<>> /\ dpc' = "finished"
              ELSE /\ label' = Classify(price.price, w.face_value)
                   /\ ytm_range' = YtmRange(w.ytm_percent)
                   /\ dpc' = "loop"
    /\ UNCHANGED today

\* Lines 186-191: one iteration of the loop over ytm_range.
DashCurvePoint ==
    /\ dpc = "loop"
    /\ Len(prices_for_ytm_range) < Len(ytm_range)
    /\ prices_for_ytm_range' =
           Append(prices_for_ytm_range,
                  CurvePoint(widgets, ytm_range[Len(prices_for_ytm_range) + 1], today))
    /\ UNCHANGED <<today, dpc, widgets, bond_price, label, ytm_range,
                   df_price_sensitivity, runStart>>

\* Lines 194-197: the loop is over, the frame is built.
DashFrame ==
    /\ dpc = "loop"
    /\ Len(prices_for_ytm_range) = Len(ytm_range)
    /\ df_price_sensitivity' = Dropna(ytm_range, prices_for_ytm_range)
    /\ dpc' = "finished"
    /\ UNCHANGED <<today, widgets, bond_price, label, ytm_range,
                   prices_for_ytm_range, runStart>>

\* The run is over; the script waits for the next change of a widget.
DashWait ==
    /\ dpc = "finished"
    /\ dpc' = "idle"
    /\ widgets' = NoWidgets
    /\ bond_price' = None("NotCalled")
    /\ label' = ""
    /\ ytm_range' = <<>>
    /\ prices_for_ytm_range' = <<>>
    /\ df_price_sensitivity' = <<>>
    /\ runStart' = 0
    /\ UNCHANGED today

DashTick == Tick /\ UNCHANGED dashVars

WidgetStates ==
    {[face_value |-> fv, coupon_rate_percent |-> cp, maturity_date |-> today + off,
      ytm_percent |-> yp, coupon_frequency |-> f] :
        fv \in WidgetFaceValues, cp \in WidgetCouponPercents,
        off \in WidgetMaturityOffsets, yp \in WidgetYtmPercents,
        f \in WidgetFrequencies}

InitDash ==
    /\ today = FirstDay
    /\ dpc = "idle"
    /\ widgets = NoWidgets
    /\ bond_price = None("NotCalled")
    /\ label = ""
    /\ ytm_range = <<>>
    /\ prices_for_ytm_range = <<>>
    /\ df_price_sensitivity = <<>>
    /\ runStart = 0
    /\ CallsIdle
    /\ CliIdle

NextDash ==
    \/ DashTick /\ UNCHANGED <<callVars, cliVars>>
    \/ (\E w \in WidgetStates : DashRun(w)) /\ UNCHANGED <<callVars, cliVars>>
    \/ DashCurvePoint /\ UNCHANGED <<callVars, cliVars>>
    \/ DashFrame /\ UNCHANGED <<callVars, cliVars>>
    \/ DashWait /\ UNCHANGED <<callVars, cliVars>>

SpecDash == InitDash /\ [][NextDash]_vars

---------------------------------------------------------------------------
(* Properties of the dashboard's price curve (checked under SpecDash).     *)

RECURSIVE CountNaN(_)
CountNaN(prices) ==
    IF prices = <<>> THEN 0
    ELSE (IF Head(prices) = NaN THEN 1 ELSE 0) + CountNaN(Tail(prices))

\* The curve of a finished run whose selected price was computed.
CurveBuilt == dpc = "finished" /\ bond_price.kind = "Price"

\* A single call of the pricing function for the widgets' bond at y percent,
\* made on the given day.
SingleCall(y, clock) ==
    DashboardCalculateBondPrice(widgets.face_value,
                                RDiv(widgets.coupon_rate_percent, R(100)),
                                widgets.maturity_date, RDiv(y, R(100)),
                                widgets.coupon_frequency, clock)

\* 50 - failed points, ascending, each the price a single call at that YTM
\* returns on a day of the run; a failed point is a NaN in the list of prices
\* and the loop goes on to the last sample.
CurveFaithful ==
    /\ Len(ytm_range) = 50
    /\ Len(prices_for_ytm_range) = 50
    /\ Len(df_price_sensitivity) = 50 - CountNaN(prices_for_ytm_range)
    /\ \A i \in 1..50 :
          prices_for_ytm_range[i] = NaN
              => \E clock \in runStart..today :
                     IsFailure(SingleCall(ytm_range[i], clock))
    /\ \A i \in 1..Len(df_price_sensitivity) :
          /\ df_price_sensitivity[i].price.kind = "Price"
          /\ \E clock \in runStart..today :
                 df_price_sensitivity[i].price =
                     SingleCall(df_price_sensitivity[i].ytm, clock)
          /\ i > 1 => RLess(df_price_sensitivity[i - 1].ytm,
                            df_price_sensitivity[i].ytm)

====
